---- MODULE Spec2Model ----
(***************************************************************************)
(* The Scholar API backend: the response generator of POST /query          *)
(* (backend/main.py), the context assembler _prepare_structured_data it    *)
(* calls, the generation client whose fragments it streams and the graph   *)
(* expansion query (backend/retriever.py), the health endpoint, the         *)
(* uploader's relationship type sanitizer (backend/graph_pipe.py), and the  *)
(* parallel embedding and provider retry loops of the ingestion pipeline    *)
(* (backend/spark_processor.py).  Each entry point has its own              *)
(* specification over the one set of variables.                             *)
(***************************************************************************)
EXTENDS Naturals, Sequences, FiniteSets, TLC

VARIABLES
    \* ---- process configuration (module level, read once at import) ----
    graph_retriever,    \* main.py:27 global; TRUE = constructed, FALSE = None
    LLM_PROVIDER,       \* retriever.py:27
    OPENROUTER_API_KEY, \* retriever.py:35; TRUE = non-empty
    \* ---- one /query session: the generator's position and its output ----
    pc,                 \* where response_generator (or the helper) stands
    frames,             \* the frames the generator has yielded, in order
    calls,              \* how many times each collaborator stage was invoked
    exc,                \* the exception raised in the try body, or NoExc
    llm_iter,           \* the iterable query_llm returned
    delivered,          \* what the generation provider has delivered so far
    \* ---- locals of _prepare_structured_data ----
    context_data,       \* the rows under assembly (graph_data parsed in place)
    idx,                \* number of rows the for loop has consumed
    sources,
    graph_nodes,        \* dict name -> GraphNode, insertion ordered
    graph_edges,        \* dict (source, target, type) -> GraphEdge
    context_for_llm,
    seen_chunks,
    structured_data,    \* the returned StructuredResponse, or NoValue
    \* ---- the consumer of the generator (the streaming response) ----
    closed,             \* TRUE once the consumer has closed the generator
    \* ---- one call of GraphRetriever.graph_expansion against the store ----
    store,              \* the graph: who owns each chunk, who mentions what
    chunk_ids,          \* the seed identifiers ($ids)
    depth,              \* the depth argument
    expansion,          \* the rows returned, or NoValue before the call
    \* ---- locals of the command-line assembly, retriever.py main() ----
    ctx_rows,
    cli_i,              \* number of rows the for loop has taken
    cli_seen,           \* the local `seen`
    context_parts,
    total_len,
    \* ---- one call of Neo4jUploader._sanitize_rel_type ----
    rel_type,           \* the argument t: a string, or null
    sanitized,          \* the returned token, or NoValue before the call
    \* ---- one call of embed_chunks_parallel, spark_processor.py:156-170 ----
    chunks,             \* the argument
    futures,            \* per chunk index: the state of its future
    results,            \* the local list `results`
    \* ---- the server process: two /query sessions and GET /health ----
    scripts,            \* per session: what its collaborators will answer
    sess,               \* per session: the generator's position and frames
    accs,               \* per call frame: locals of _prepare_structured_data
    store_reachable,    \* whether the store answers at this moment
    health_log,         \* the /health responses, with the store's state then
    \* ---- one call of _call_ollama / _call_openrouter ----
    retries,            \* the argument
    attempt,            \* the loop variable i
    trace,              \* provider requests and sleeps so far, in order
    ret                 \* the returned string, or NoValue before the return

cfgVars == <<graph_retriever, LLM_PROVIDER, OPENROUTER_API_KEY>>
sessVars == <<pc, frames, calls, exc, llm_iter, delivered>>
asmVars == <<context_data, idx, sources, graph_nodes, graph_edges,
             context_for_llm, seen_chunks, structured_data>>
expVars == <<store, chunk_ids, depth, expansion>>
cliVars == <<ctx_rows, cli_i, cli_seen, context_parts, total_len>>
sanVars == <<rel_type, sanitized>>
embVars == <<chunks, futures, results>>
srvVars == <<scripts, sess, accs, store_reachable, health_log>>
retryVars == <<retries, attempt, trace, ret>>
auxVars == <<sanVars, embVars, srvVars, retryVars>>
extVars == <<closed, expVars, cliVars, auxVars>>
vars == <<cfgVars, sessVars, asmVars, extVars>>

(***************************************************************************)
(* Bounds of the model.                                                    *)
(***************************************************************************)
MaxRows == 3        \* rows handed to _prepare_structured_data on its own
MaxCtxRows == 1     \* rows graph_expansion returns within a session
MaxLines == 3       \* lines / deltas the generation provider delivers

NoValue == [py |-> "None"]

\* the parts of the state a run of another entry point leaves at rest
NoStore == [owner |-> <<>>, mentions |-> {}]
ExpIdle ==
    /\ store = NoStore
    /\ chunk_ids = <<>>
    /\ depth = 0
    /\ expansion = NoValue
CliIdle ==
    /\ ctx_rows = <<>>
    /\ cli_i = 0
    /\ cli_seen = {}
    /\ context_parts = <<>>
    /\ total_len = 0
SanIdle ==
    /\ rel_type = NoValue
    /\ sanitized = NoValue
EmbIdle ==
    /\ chunks = <<>>
    /\ futures = <<>>
    /\ results = <<>>
SrvIdle ==
    /\ scripts = <<>>
    /\ sess = <<>>
    /\ accs = <<>>
    /\ store_reachable = TRUE
    /\ health_log = <<>>
RetryIdle ==
    /\ retries = 0
    /\ attempt = 0
    /\ trace = <<>>
    /\ ret = NoValue
AuxIdle == SanIdle /\ EmbIdle /\ SrvIdle /\ RetryIdle

\* an exception in flight: its class and the stage whose call raised it
NoExc == [type |-> "none", at |-> "none"]
Exc(type, at) == [type |-> type, at |-> at]

(***************************************************************************)
(* Python values stored in a row's graph_data.  A str is modelled by what   *)
(* json.loads makes of it.                                                  *)
(***************************************************************************)
PyDict(d) == [py |-> "dict", d |-> d]
PyList(items) == [py |-> "list", items |-> items]
JsonText(v) == [py |-> "str", json |-> "valid", value |-> v]
BadJsonText(raw) == [py |-> "str", json |-> "invalid", raw |-> raw]
EmptyDict == PyDict(<<>>)

Entity(n, t) == [name |-> n, type |-> t]
Rel(s, t, ty) == [source |-> s, target |-> t, type |-> ty]

\* Stored fragments: the two of the extraction prompt's example, a second
\* fragment that retypes BERT and repeats an edge, an unparseable string,
\* a JSON array, and an entity without its type.
FragA == PyDict([entities |-> <<Entity("BERT", "Tool"), Entity("SQuAD", "Dataset")>>,
                 relationships |-> <<Rel("BERT", "SQuAD", "EVALUATED_ON")>>])
FragB == PyDict([entities |-> <<Entity("BERT", "Method"), Entity("BERT", "Metric")>>,
                 relationships |-> <<Rel("BERT", "SQuAD", "EVALUATED_ON"),
                                     Rel("SQuAD", "BERT", "COMPARES")>>])
FragNoType == PyDict([entities |-> <<[name |-> "BERT"]>>])

GraphDataValues ==
    { JsonText(FragA), JsonText(FragB), BadJsonText("{oops"),
      JsonText(PyList(<<1>>)), JsonText(FragNoType) }

\* (paper, chunk text) pairs: one text shared by two papers, one paper with
\* two texts.
PaperTitle == [p1 |-> "Paper One", p2 |-> "Paper Two"]
PaperChunks == { <<"p1", "t1">>, <<"p2", "t1">>, <<"p1", "t2">> }

Row(p, t, g) ==
    [paper_id |-> p, paper_title |-> PaperTitle[p], pdf_url |-> "",
     chunk_text |-> t, graph_data |-> g]

Rows == { Row(pt[1], pt[2], g) : pt \in PaperChunks, g \in GraphDataValues }

SeqsUpTo(S, n) == UNION { [1..k -> S] : k \in 0..n }

(***************************************************************************)
(* Python dict, insertion ordered: a sequence of <<key, value>> pairs with  *)
(* distinct keys.  d[k] = v keeps the position of an existing key.          *)
(***************************************************************************)
DictKeys(d) == { d[i][1] : i \in 1..Len(d) }
DictValues(d) == [i \in 1..Len(d) |-> d[i][2]]
DictSetAppend(d, k, v) == Append(d, <<k, v>>)
DictSetKeepFirst(d, k, v) ==
    IF k \in DictKeys(d) THEN d ELSE Append(d, <<k, v>>)
DictSet(d, k, v) ==
    IF k \in DictKeys(d)
    THEN [i \in 1..Len(d) |-> IF d[i][1] = k THEN <<k, v>> ELSE d[i]]
    ELSE Append(d, <<k, v>>)

(***************************************************************************)
(* _prepare_structured_data, main.py:101-140.                              *)
(***************************************************************************)
\* without the except clause of main.py:112 an unparseable str stays a str
ParsedGraphDataKeepsStr(g) ==
    IF g.py = "str" /\ g.json = "valid" THEN g.value ELSE g
\* main.py:109-114: a str is replaced by its parse, or by {} when it has none.
ParsedGraphData(g) ==
    IF g.py = "str"
    THEN IF g.json = "valid" THEN g.value ELSE EmptyDict
    ELSE g

\* Python truthiness of the values above, for `r.get("graph_data") or {}`.
Truthy(v) ==
    CASE v.py = "dict" -> DOMAIN v.d # {}
      [] v.py = "list" -> Len(v.items) > 0
      [] v.py = "str" -> TRUE
      [] OTHER -> FALSE

\* main.py:127
GdOf(r) == IF Truthy(r.graph_data) THEN r.graph_data ELSE EmptyDict

\* dict.get(key, []), main.py:128 and 130
GdGet(gd, key) == IF key \in DOMAIN gd.d THEN gd.d[key] ELSE <<>>

Source(r) ==
    [paper_id |-> r.paper_id, paper_title |-> r.paper_title,
     pdf_url |-> r.pdf_url, chunk_text |-> r.chunk_text]
GraphNode(id, type) == [id |-> id, type |-> type]
GraphEdge(s, t, ty) == [source |-> s, target |-> t, type |-> ty]

\* main.py:124
ContextBlock(r) ==
    "Paper: " \o r.paper_title \o "\nChunk: " \o r.chunk_text \o "\n\n"

\* main.py:116: the dedup test
IsNewChunkById(r, seen) == r.paper_id \notin seen
IsNewChunk(r, seen) == r.chunk_text \notin seen

\* main.py:129
InsertEntity(nodes, e) == DictSet(nodes, e.name, GraphNode(e.name, e.type))
\* main.py:131-134
InsertRel(edges, rel) ==
    DictSet(edges, <<rel.source, rel.target, rel.type>>,
            GraphEdge(rel.source, rel.target, rel.type))

RECURSIVE AddEntities(_, _)
AddEntities(nodes, ents) ==
    IF ents = <<>> THEN nodes
    ELSE AddEntities(InsertEntity(nodes, Head(ents)), Tail(ents))

RECURSIVE AddRels(_, _)
AddRels(edges, rels) ==
    IF rels = <<>> THEN edges
    ELSE AddRels(InsertRel(edges, Head(rels)), Tail(rels))

\* The row makes the loop body raise: gd.get on a non-dict (AttributeError),
\* e["name"] / e["type"] / rel[...] on a missing key (KeyError).
RowRaises(r) ==
    LET gd == GdOf(r) IN
    \/ gd.py # "dict"
    \/ /\ gd.py = "dict"
       /\ \/ \E i \in 1..Len(GdGet(gd, "entities")) :
                ~ ({"name", "type"} \subseteq DOMAIN GdGet(gd, "entities")[i])
          \/ \E i \in 1..Len(GdGet(gd, "relationships")) :
                ~ ({"source", "target", "type"}
                       \subseteq DOMAIN GdGet(gd, "relationships")[i])

RowException(r) == IF GdOf(r).py # "dict" THEN "AttributeError" ELSE "KeyError"

\* main.py:116-125, on the accumulators
StepText(acc, r) ==
    IF IsNewChunk(r, acc.seen_chunks)
    THEN [acc EXCEPT !.sources = Append(@, Source(r)),
                     !.context_for_llm = @ \o ContextBlock(r),
                     !.seen_chunks = @ \cup {r.chunk_text}]
    ELSE acc

\* main.py:127-134, on the accumulators
StepGraph(acc, r) ==
    LET gd == GdOf(r) IN
    [acc EXCEPT !.graph_nodes = AddEntities(@, GdGet(gd, "entities")),
                !.graph_edges = AddRels(@, GdGet(gd, "relationships"))]

\* One iteration of the for loop (main.py:108-134) on a row already parsed.
LoopBodyGraphOfNewChunksOnly(acc, r) ==
    IF IsNewChunk(r, acc.seen_chunks) THEN StepGraph(StepText(acc, r), r) ELSE acc
LoopBody(acc, r) == StepGraph(StepText(acc, r), r)

\* main.py:136-139
StructuredResponse(srcs, nodes, edges) ==
    [sources |-> srcs,
     graph |-> [nodes |-> DictValues(nodes), edges |-> DictValues(edges)]]

Acc ==
    [sources |-> sources, graph_nodes |-> graph_nodes,
     graph_edges |-> graph_edges, context_for_llm |-> context_for_llm,
     seen_chunks |-> seen_chunks]

\* The row the loop is about to take, with main.py:109-114 applied.
CurrentRow ==
    [context_data[idx + 1] EXCEPT !.graph_data = ParsedGraphData(@)]

\* A loop iteration that completes.
ProcessRow ==
    /\ pc = "assemble"
    /\ idx < Len(context_data)
    /\ ~ RowRaises(CurrentRow)
    /\ LET new == LoopBody(Acc, CurrentRow) IN
         /\ sources' = new.sources
         /\ graph_nodes' = new.graph_nodes
         /\ graph_edges' = new.graph_edges
         /\ context_for_llm' = new.context_for_llm
         /\ seen_chunks' = new.seen_chunks
    /\ context_data' = [context_data EXCEPT ![idx + 1] = CurrentRow]
    /\ idx' = idx + 1
    /\ UNCHANGED <<pc, structured_data, frames, calls, exc, llm_iter, delivered,
                   cfgVars, extVars>>

\* A loop iteration that raises: the exception leaves the helper and is
\* caught by the generator's except clause (main.py:175).
ProcessRowRaises ==
    /\ pc = "assemble"
    /\ idx < Len(context_data)
    /\ RowRaises(CurrentRow)
    /\ context_data' = [context_data EXCEPT ![idx + 1] = CurrentRow]
    /\ pc' = "except"
    /\ exc' = Exc(RowException(CurrentRow), "assemble")
    /\ UNCHANGED <<idx, sources, graph_nodes, graph_edges, context_for_llm,
                   seen_chunks, structured_data, frames, calls, llm_iter,
                   delivered, cfgVars, extVars>>

\* the generation client is called before the graph and metadata frames
AssembleReturnThenQueryLlm ==
    /\ pc = "assemble"
    /\ idx = Len(context_data)
    /\ structured_data' = StructuredResponse(sources, graph_nodes, graph_edges)
    /\ pc' = "query_llm"
    /\ UNCHANGED <<context_data, idx, sources, graph_nodes, graph_edges,
                   context_for_llm, seen_chunks, frames, calls, exc, llm_iter,
                   delivered, cfgVars, extVars>>
\* main.py:136-140 and the assignment at main.py:153
AssembleReturn ==
    /\ pc = "assemble"
    /\ idx = Len(context_data)
    /\ structured_data' = StructuredResponse(sources, graph_nodes, graph_edges)
    /\ pc' = "emit_graph"
    /\ UNCHANGED <<context_data, idx, sources, graph_nodes, graph_edges,
                   context_for_llm, seen_chunks, frames, calls, exc, llm_iter,
                   delivered, cfgVars, extVars>>

NoIter == [kind |-> "none"]

AsmInitLocals ==
    /\ idx = 0
    /\ sources = <<>>
    /\ graph_nodes = <<>>
    /\ graph_edges = <<>>
    /\ context_for_llm = ""
    /\ seen_chunks = {}
    /\ structured_data = NoValue

NoCalls == [embed |-> 0, search |-> 0, expand |-> 0, assemble |-> 0, llm |-> 0]

\* _prepare_structured_data called on its own with any bounded row list.
InitAssemble ==
    /\ graph_retriever = TRUE
    /\ LLM_PROVIDER = "ollama"
    /\ OPENROUTER_API_KEY = FALSE
    /\ pc = "assemble"
    /\ frames = <<>>
    /\ calls = [NoCalls EXCEPT !.assemble = 1]
    /\ exc = NoExc
    /\ llm_iter = NoIter
    /\ delivered = <<>>
    /\ context_data \in SeqsUpTo(Rows, MaxRows)
    /\ AsmInitLocals
    /\ closed = FALSE
    /\ ExpIdle
    /\ CliIdle
    /\ AuxIdle

NextAssemble == ProcessRow \/ ProcessRowRaises \/ AssembleReturn

SpecAssemble == InitAssemble /\ [][NextAssemble]_vars

(***************************************************************************)
(* The frames of the event stream, main.py:155-179.  A frame               *)
(* "data: <json>\n\n" is modelled by the payload json.dumps serialises; the *)
(* terminal frame is the only one with an event name.                      *)
(***************************************************************************)
DataFrame(payload) == [event |-> "message", data |-> payload]

\* main.py:156-161
GraphFrame(sd) ==
    DataFrame([type |-> "graph", nodes |-> sd.graph.nodes, edges |-> sd.graph.edges])
\* main.py:164-168
MetadataFrame(sd) == DataFrame([type |-> "metadata", sources |-> sd.sources])
\* main.py:172-173
TextFrameBlank(token) == DataFrame([type |-> "text", chunk |-> ""])
TextFrame(token) == DataFrame([type |-> "text", chunk |-> token])
\* the payload echoes the exception in flight
ErrorFrameWithDetail == DataFrame([error |-> exc.type \o " at " \o exc.at])
\* main.py:177
ErrorFrame == DataFrame([error |-> "Something went wrong"])
\* main.py:179
EndFrame == [event |-> "end", data |-> "[DONE]"]

\* a generator's yield: the frame goes out after those already sent
YieldFirst(fs, f) == <<f>> \o fs
Yield(fs, f) == Append(fs, f)

(***************************************************************************)
(* query_llm and the provider adapters, retriever.py:98-160.               *)
(***************************************************************************)
\* Iterating a str yields its characters one by one.
ErrInvalidProvider ==   \* "Error: invalid LLM_PROVIDER."   retriever.py:160
    <<"E", "r", "r", "o", "r", ":", " ", "i", "n", "v", "a", "l", "i", "d", " ",
      "L", "L", "M", "_", "P", "R", "O", "V", "I", "D", "E", "R", ".">>
ErrNoApiKey ==          \* "Error: OPENROUTER_API_KEY not set."   retriever.py:130
    <<"E", "r", "r", "o", "r", ":", " ", "O", "P", "E", "N", "R", "O", "U", "T",
      "E", "R", "_", "A", "P", "I", "_", "K", "E", "Y", " ", "n", "o", "t", " ",
      "s", "e", "t", ".">>

StrIter(chars) == [kind |-> "str", rest |-> chars]
OllamaGen == [kind |-> "ollama_gen", started |-> FALSE]
OpenRouterGen == [kind |-> "openrouter_gen"]

\* What query_llm(..., stream=True) returns when nothing raises.
QueryLlmResult(provider, hasKey) ==
    CASE provider = "ollama" -> OllamaGen
      [] provider = "openrouter" ->
            IF hasKey THEN OpenRouterGen ELSE StrIter(ErrNoApiKey)
      [] OTHER -> StrIter(ErrInvalidProvider)

\* Lines of the local server's newline-delimited stream (retriever.py:118-125):
\* an empty keep-alive line, a line json.loads (or .get) rejects, an object
\* without "response", and objects carrying a fragment.
Fragments == {"The ", "answer ", "is 42."}
OllamaLines ==
    {[kind |-> "blank"], [kind |-> "garbage"], [kind |-> "json", obj |-> <<>>]}
        \cup {[kind |-> "json", obj |-> [response |-> f]] : f \in Fragments}
\* Streamed deltas of the hosted API (retriever.py:149-150): content may be null.
Deltas == {[null |-> TRUE]} \cup {[null |-> FALSE, content |-> f] : f \in Fragments}

\* retriever.py:119-120 and 124-125: the line is passed over
OllamaLineSkipped(line) == line.kind \in {"blank", "garbage"}
\* retriever.py:122-123
OllamaLineYield(line) ==
    IF "response" \in DOMAIN line.obj THEN line.obj.response ELSE ""
\* retriever.py:150
DeltaYield(delta) == IF delta.null THEN "" ELSE delta.content

(***************************************************************************)
(* query_endpoint and response_generator, main.py:143-181.                 *)
(***************************************************************************)
Stage(name) == [calls EXCEPT ![name] = @ + 1]

\* main.py:145-146, 181
QueryEndpoint ==
    /\ pc = "request"
    /\ pc' = IF graph_retriever THEN "embed" ELSE "http503"
    /\ UNCHANGED <<frames, calls, exc, llm_iter, delivered, cfgVars, extVars, asmVars>>

\* main.py:150
Embed ==
    /\ pc = "embed"
    /\ calls' = Stage("embed")
    /\ \/ pc' = "search" /\ exc' = exc
       \/ pc' = "except" /\ exc' = Exc("ConnectionError", "embed")
    /\ UNCHANGED <<frames, llm_iter, delivered, cfgVars, extVars, asmVars>>

\* main.py:151
VectorSearch ==
    /\ pc = "search"
    /\ calls' = Stage("search")
    /\ \/ pc' = "expand" /\ exc' = exc
       \/ pc' = "except" /\ exc' = Exc("ServiceUnavailable", "search")
    /\ UNCHANGED <<frames, llm_iter, delivered, cfgVars, extVars, asmVars>>

\* main.py:152: the store answers with rows
GraphExpansion ==
    /\ pc = "expand"
    /\ calls' = Stage("expand")
    /\ context_data' \in SeqsUpTo(Rows, MaxCtxRows)
    /\ pc' = "called_assemble"
    /\ UNCHANGED <<frames, exc, llm_iter, delivered, cfgVars, extVars, idx, sources,
                   graph_nodes, graph_edges, context_for_llm, seen_chunks,
                   structured_data>>

\* main.py:152: the store is unavailable
GraphExpansionRaises ==
    /\ pc = "expand"
    /\ calls' = Stage("expand")
    /\ pc' = "except"
    /\ exc' = Exc("ServiceUnavailable", "expand")
    /\ UNCHANGED <<frames, llm_iter, delivered, cfgVars, extVars, asmVars>>

\* main.py:153 enters the helper, main.py:102-106
CallAssemble ==
    /\ pc = "called_assemble"
    /\ calls' = Stage("assemble")
    /\ idx' = 0
    /\ sources' = <<>>
    /\ graph_nodes' = <<>>
    /\ graph_edges' = <<>>
    /\ context_for_llm' = ""
    /\ seen_chunks' = {}
    /\ pc' = "assemble"
    /\ UNCHANGED <<context_data, structured_data, frames, exc, llm_iter,
                   delivered, cfgVars, extVars>>

\* main.py:155-161
EmitGraph ==
    /\ pc = "emit_graph"
    /\ frames' = Yield(frames, GraphFrame(structured_data))
    /\ pc' = "emit_metadata"
    /\ UNCHANGED <<calls, exc, llm_iter, delivered, cfgVars, extVars, asmVars>>

\* main.py:163-168
EmitMetadata ==
    /\ pc = "emit_metadata"
    /\ frames' = Yield(frames, MetadataFrame(structured_data))
    /\ pc' = "query_llm"
    /\ UNCHANGED <<calls, exc, llm_iter, delivered, cfgVars, extVars, asmVars>>

\* main.py:171 calls query_llm, retriever.py:153-160
QueryLlm ==
    /\ pc = "query_llm"
    /\ calls' = Stage("llm")
    /\ llm_iter' = QueryLlmResult(LLM_PROVIDER, OPENROUTER_API_KEY)
    /\ pc' = "iterate"
    /\ UNCHANGED <<frames, exc, delivered, cfgVars, extVars, asmVars>>

\* query_llm itself raises: retriever.py:154 (the template names a field
\* format() is not given), or retriever.py:141 (the hosted API refuses the
\* request)
QueryLlmRaises ==
    /\ pc = "query_llm"
    /\ calls' = Stage("llm")
    /\ pc' = "except"
    /\ \/ exc' = Exc("KeyError", "query_llm")
       \/ /\ LLM_PROVIDER = "openrouter"
          /\ OPENROUTER_API_KEY
          /\ exc' = Exc("APIError", "query_llm")
    /\ UNCHANGED <<frames, llm_iter, delivered, cfgVars, extVars, asmVars>>

\* main.py:171-173: the for loop binds `token` and yields its text frame
EmitToken(token) == frames' = Yield(frames, TextFrame(token))

\* iterating the error string: one character per step
StrNext ==
    /\ pc = "iterate"
    /\ llm_iter.kind = "str"
    /\ llm_iter.rest # <<>>
    /\ delivered' = Append(delivered, Head(llm_iter.rest))
    /\ EmitToken(Head(llm_iter.rest))
    /\ llm_iter' = [llm_iter EXCEPT !.rest = Tail(@)]
    /\ UNCHANGED <<pc, calls, exc, cfgVars, extVars, asmVars>>

\* retriever.py:110-117: the first next() posts the request
OllamaPost ==
    /\ pc = "iterate"
    /\ llm_iter.kind = "ollama_gen"
    /\ ~ llm_iter.started
    /\ \/ /\ llm_iter' = [llm_iter EXCEPT !.started = TRUE]
          /\ UNCHANGED <<pc, exc>>
       \/ /\ pc' = "except"
          /\ exc' \in {Exc("ConnectionError", "iterate"), Exc("HTTPError", "iterate")}
          /\ UNCHANGED llm_iter
    /\ UNCHANGED <<frames, calls, delivered, cfgVars, extVars, asmVars>>

\* retriever.py:118-125: one line of the response
OllamaLine ==
    /\ pc = "iterate"
    /\ llm_iter.kind = "ollama_gen"
    /\ llm_iter.started
    /\ Len(delivered) < MaxLines
    /\ \E line \in OllamaLines :
          /\ delivered' = Append(delivered, line)
          /\ IF OllamaLineSkipped(line)
             THEN UNCHANGED frames
             ELSE EmitToken(OllamaLineYield(line))
    /\ UNCHANGED <<pc, calls, exc, llm_iter, cfgVars, extVars, asmVars>>

\* retriever.py:149-150: one delta of the completion stream
OpenRouterDelta ==
    /\ pc = "iterate"
    /\ llm_iter.kind = "openrouter_gen"
    /\ Len(delivered) < MaxLines
    /\ \E delta \in Deltas :
          /\ delivered' = Append(delivered, delta)
          /\ EmitToken(DeltaYield(delta))
    /\ UNCHANGED <<pc, calls, exc, llm_iter, cfgVars, extVars, asmVars>>

\* the iterable is exhausted: the for loop ends, main.py:171
IterEnd ==
    /\ pc = "iterate"
    /\ \/ llm_iter.kind = "str" /\ llm_iter.rest = <<>>
       \/ llm_iter.kind = "ollama_gen" /\ llm_iter.started
       \/ llm_iter.kind = "openrouter_gen"
    /\ pc' = "finally"
    /\ UNCHANGED <<frames, calls, exc, llm_iter, delivered, cfgVars, extVars, asmVars>>

\* the provider's stream breaks while the loop waits for the next fragment
\* (retriever.py:118 or 149), caught at main.py:175
IterRaisesUncaught ==
    /\ pc = "iterate"
    /\ \/ llm_iter.kind = "ollama_gen" /\ llm_iter.started
       \/ llm_iter.kind = "openrouter_gen"
    /\ pc' = "finally"
    /\ exc' = Exc("ChunkedEncodingError", "iterate")
    /\ UNCHANGED <<frames, calls, llm_iter, delivered, cfgVars, extVars, asmVars>>
IterRaises ==
    /\ pc = "iterate"
    /\ \/ llm_iter.kind = "ollama_gen" /\ llm_iter.started
       \/ llm_iter.kind = "openrouter_gen"
    /\ pc' = "except"
    /\ exc' = Exc("ChunkedEncodingError", "iterate")
    /\ UNCHANGED <<frames, calls, llm_iter, delivered, cfgVars, extVars, asmVars>>

\* main.py:175-177
ExceptSilent ==
    /\ pc = "except"
    /\ pc' = "finally"
    /\ UNCHANGED <<frames, calls, exc, llm_iter, delivered, cfgVars, extVars, asmVars>>
Except ==
    /\ pc = "except"
    /\ frames' = Yield(frames, ErrorFrame)
    /\ pc' = "finally"
    /\ UNCHANGED <<calls, exc, llm_iter, delivered, cfgVars, extVars, asmVars>>

\* main.py:178-179
FinallyOnSuccessOnly ==
    /\ pc = "finally"
    /\ frames' = IF exc = NoExc THEN Yield(frames, EndFrame) ELSE frames
    /\ pc' = "done"
    /\ UNCHANGED <<calls, exc, llm_iter, delivered, cfgVars, extVars, asmVars>>
Finally ==
    /\ pc = "finally"
    /\ frames' = Yield(frames, EndFrame)
    /\ pc' = "done"
    /\ UNCHANGED <<calls, exc, llm_iter, delivered, cfgVars, extVars, asmVars>>

Init ==
    /\ graph_retriever \in BOOLEAN
    /\ LLM_PROVIDER \in {"ollama", "openrouter", "other"}
    /\ OPENROUTER_API_KEY \in BOOLEAN
    /\ pc = "request"
    /\ frames = <<>>
    /\ calls = NoCalls
    /\ exc = NoExc
    /\ llm_iter = NoIter
    /\ delivered = <<>>
    /\ context_data = <<>>
    /\ AsmInitLocals
    /\ closed = FALSE
    /\ ExpIdle
    /\ CliIdle
    /\ AuxIdle

Next ==
    \/ QueryEndpoint
    \/ Embed
    \/ VectorSearch
    \/ GraphExpansion
    \/ GraphExpansionRaises
    \/ CallAssemble
    \/ ProcessRow
    \/ ProcessRowRaises
    \/ AssembleReturn
    \/ EmitGraph
    \/ EmitMetadata
    \/ QueryLlm
    \/ QueryLlmRaises
    \/ StrNext
    \/ OllamaPost
    \/ OllamaLine
    \/ OpenRouterDelta
    \/ IterEnd
    \/ IterRaises
    \/ Except
    \/ Finally

Spec == Init /\ [][Next]_vars

(***************************************************************************)
(* The client disconnects: the consumer of response_generator closes the   *)
(* generator while it is suspended at a yield (main.py:161, 168, 173, 177). *)
(* GeneratorExit is raised at that yield; it is not an Exception, so the    *)
(* except clause of main.py:175 is passed over and the finally clause of    *)
(* main.py:178 runs.                                                        *)
(***************************************************************************)
\* The generator is suspended at a yield before the terminal frame: the
\* step that led to this state sent a frame.
Suspended ==
    \/ pc = "emit_metadata"
    \/ pc = "query_llm"
    \/ /\ pc = "iterate"
       /\ delivered # <<>>
       /\ llm_iter.kind = "ollama_gen" => ~ OllamaLineSkipped(delivered[Len(delivered)])
    \/ pc = "finally" /\ exc # NoExc

\* the close is lost: the generator goes on as if resumed
GeneratorCloseIgnored ==
    /\ ~ closed
    /\ Suspended
    /\ closed' = TRUE
    /\ UNCHANGED <<pc, frames, calls, exc, llm_iter, delivered, cfgVars, auxVars, asmVars,
                   expVars, cliVars>>
\* generator.close(): GeneratorExit at the yield the generator is suspended at
GeneratorClose ==
    /\ ~ closed
    /\ Suspended
    /\ closed' = TRUE
    /\ pc' = "generator_exit"
    /\ UNCHANGED <<frames, calls, exc, llm_iter, delivered, cfgVars, auxVars, asmVars,
                   expVars, cliVars>>

\* main.py:178-179 while closing: the yield of the finally clause hands its
\* frame to close(), which drops it and raises RuntimeError in the consumer;
\* the generator is never resumed.
FinallyOnClose ==
    /\ pc = "generator_exit"
    /\ pc' = "abandoned"
    /\ UNCHANGED <<frames, calls, exc, llm_iter, delivered, cfgVars, asmVars,
                   extVars>>

NextDisconnect == Next \/ GeneratorClose \/ FinallyOnClose

SpecDisconnect == Init /\ [][NextDisconnect]_vars

(***************************************************************************)
(* GraphRetriever.graph_expansion, retriever.py:71-95, against a store as   *)
(* Neo4jUploader._upload_batch builds it (graph_pipe.py:84-105): every     *)
(* Chunk is the target of one HAS_CHUNK relationship from its Paper, and    *)
(* MENTIONS relationships lead from Chunks to Entities.                     *)
(***************************************************************************)
MaxDepth == 3       \* largest depth argument
MaxSeeds == 2       \* largest number of seed identifiers

ChunkIds == {"c1", "c2", "c3"}
PaperIds == {"p1", "p2"}
EntityNames == {"Attention", "BERT"}
UnknownChunkId == "c9"          \* an identifier no Chunk node carries

\* node properties; a missing property is null
Null == [null |-> TRUE]
Val(v) == [null |-> FALSE, v |-> v]
ChunkText == [c1 |-> "t1", c2 |-> "t2", c3 |-> "t3"]
ChunkGraphData ==
    [c1 |-> Val(JsonText(FragA)), c2 |-> Val(JsonText(FragB)), c3 |-> Null]
PaperPdfUrl == [p1 |-> Val("http://arxiv.org/pdf/p1"), p2 |-> Null]

Stores ==
    { [owner |-> o, mentions |-> m] :
        o \in [ChunkIds -> PaperIds], m \in SUBSET (ChunkIds \X EntityNames) }

\* seed lists as vector_search returns them: no identifier twice
SeedLists ==
    { ids \in SeqsUpTo(ChunkIds \cup {UnknownChunkId}, MaxSeeds) :
        \A i, j \in 1..Len(ids) : ids[i] = ids[j] => i = j }

\* the relationships of the store, graph_pipe.py:98 and 104
Relationships(st) ==
    { [type |-> "HAS_CHUNK", from |-> st.owner[c], to |-> c] : c \in DOMAIN st.owner }
        \cup { [type |-> "MENTIONS", from |-> m[1], to |-> m[2]] : m \in st.mentions }

\* -[:MENTIONS|HAS_CHUNK]- without an arrow: a relationship is followed from
\* either of its ends, retriever.py:82
IncidentOutgoing(st, n) == { r \in Relationships(st) : r.from = n }
Incident(st, n) == { r \in Relationships(st) : r.from = n \/ r.to = n }
OtherEnd(r, n) == IF r.from = n THEN r.to ELSE r.from

\* *1..{depth}: the upper bound of the path length is the depth argument
MaxHopsDefault(d) == 2
MaxHops(d) == d

\* The end nodes of the paths of 1..k relationships that start at n and use
\* no relationship of `used` and no relationship twice (Cypher's matching).
RECURSIVE PathEnds(_, _, _, _)
PathEnds(st, n, used, k) ==
    IF k = 0 THEN {}
    ELSE UNION { {OtherEnd(r, n)} \cup PathEnds(st, OtherEnd(r, n), used \cup {r}, k - 1) :
                    r \in Incident(st, n) \ used }

\* an identifier without its node matches every Chunk
MatchChunkOrAll(st, cid) == IF cid \in DOMAIN st.owner THEN {cid} ELSE DOMAIN st.owner
\* MATCH (c:Chunk {id: cid}), retriever.py:79-80
MatchChunk(st, cid) == {cid} \cap DOMAIN st.owner

\* retriever.py:82-83: OPTIONAL MATCH ... (c2:Chunk), then
\* collect(DISTINCT coalesce(c2, c))
AllChunks(st, c, d) ==
    LET c2s == PathEnds(st, c, {}, MaxHops(d)) \cap DOMAIN st.owner IN
    IF c2s = {} THEN {c} ELSE c2s

Coalesce(p, default) == IF p.null THEN default ELSE p.v

\* retriever.py:85-91, one returned row
StoreRow(st, chunk) ==
    [paper_id |-> st.owner[chunk],
     paper_title |-> PaperTitle[st.owner[chunk]],
     pdf_url |-> Coalesce(PaperPdfUrl[st.owner[chunk]], ""),
     chunk_text |-> ChunkText[chunk],
     graph_data |-> Coalesce(ChunkGraphData[chunk], BadJsonText(""))]

\* retriever.py:77-95: the rows of RETURN DISTINCT
GraphExpansionRows(st, ids, d) ==
    { StoreRow(st, chunk) :
        chunk \in UNION { AllChunks(st, c, d) :
                            c \in UNION { MatchChunk(st, ids[i]) : i \in 1..Len(ids) } } }

\* retriever.py:71-95
RunGraphExpansion ==
    /\ pc = "expansion_called"
    /\ expansion' = GraphExpansionRows(store, chunk_ids, depth)
    /\ pc' = "expansion_returned"
    /\ UNCHANGED <<frames, calls, exc, llm_iter, delivered, cfgVars, auxVars, asmVars,
                   closed, store, chunk_ids, depth, cliVars>>

InitExpand ==
    /\ graph_retriever = TRUE
    /\ LLM_PROVIDER = "ollama"
    /\ OPENROUTER_API_KEY = FALSE
    /\ pc = "expansion_called"
    /\ frames = <<>>
    /\ calls = [NoCalls EXCEPT !.expand = 1]
    /\ exc = NoExc
    /\ llm_iter = NoIter
    /\ delivered = <<>>
    /\ context_data = <<>>
    /\ AsmInitLocals
    /\ closed = FALSE
    /\ CliIdle
    /\ AuxIdle
    /\ store \in Stores
    /\ chunk_ids \in SeedLists
    /\ depth \in 0..MaxDepth
    /\ expansion = NoValue

NextExpand == RunGraphExpansion

SpecExpand == InitExpand /\ [][NextExpand]_vars

(***************************************************************************)
(* Context assembly of the command-line entry point, retriever.py:177-191. *)
(* A chunk text is modelled by a name and its length, so that the lengths   *)
(* the budget test adds up can be those of real chunks.                     *)
(***************************************************************************)
MaxCliRows == 4     \* largest number of rows in ctx_rows
Budget == 8000      \* retriever.py:186

Text(name, n) == [null |-> FALSE, name |-> name, len |-> n]
EmptyText == Text("", 0)
\* chunk_text values: null, the empty string, two texts whose blocks fill the
\* budget exactly, one whose block is one character longer than half of it,
\* a short one, and one whose block alone exceeds the budget
CliTexts ==
    { Null, EmptyText, Text("a", 3975), Text("b", 3975), Text("c", 3976),
      Text("short", 10), Text("long", 7976) }
CliRows == { [paper_title |-> "Paper One", chunk_text |-> t] : t \in CliTexts }

\* retriever.py:182: ch = r.get("chunk_text") or ""
ChOf(r) == IF r.chunk_text.null THEN EmptyText ELSE r.chunk_text
\* retriever.py:183
CliSkipped(r, seen) == ChOf(r).len = 0 \/ ChOf(r).name \in seen
\* retriever.py:185: the block, and len(part)
Part(r) == [paper_title |-> r.paper_title, ch |-> ChOf(r)]
PartLen(part) ==
    Len("Paper: ") + Len(part.paper_title) + Len("\nChunk: ") + part.ch.len + Len("\n")
\* retriever.py:186
OverBudget(total, part) == total + PartLen(part) > Budget

CliRow == ctx_rows[cli_i + 1]

\* retriever.py:183-184: continue
CliContinue ==
    /\ pc = "cli_loop"
    /\ cli_i < Len(ctx_rows)
    /\ CliSkipped(CliRow, cli_seen)
    /\ cli_i' = cli_i + 1
    /\ UNCHANGED <<pc, ctx_rows, cli_seen, context_parts, total_len, frames,
                   calls, exc, llm_iter, delivered, cfgVars, auxVars, asmVars, closed, expVars>>

\* retriever.py:187-189
CliAppend ==
    /\ pc = "cli_loop"
    /\ cli_i < Len(ctx_rows)
    /\ ~ CliSkipped(CliRow, cli_seen)
    /\ ~ OverBudget(total_len, Part(CliRow))
    /\ context_parts' = Append(context_parts, Part(CliRow))
    /\ cli_seen' = cli_seen \cup {ChOf(CliRow).name}
    /\ total_len' = total_len + PartLen(Part(CliRow))
    /\ cli_i' = cli_i + 1
    /\ UNCHANGED <<pc, ctx_rows, frames, calls, exc, llm_iter, delivered, cfgVars, auxVars,
                   asmVars, closed, expVars>>

\* the unit over the budget is passed over and the loop goes on
CliBreakAsContinue ==
    /\ pc = "cli_loop"
    /\ cli_i < Len(ctx_rows)
    /\ ~ CliSkipped(CliRow, cli_seen)
    /\ OverBudget(total_len, Part(CliRow))
    /\ cli_i' = cli_i + 1
    /\ UNCHANGED <<pc, ctx_rows, cli_seen, context_parts, total_len, frames,
                   calls, exc, llm_iter, delivered, cfgVars, auxVars, asmVars, closed, expVars>>
\* retriever.py:186-187: break
CliBreak ==
    /\ pc = "cli_loop"
    /\ cli_i < Len(ctx_rows)
    /\ ~ CliSkipped(CliRow, cli_seen)
    /\ OverBudget(total_len, Part(CliRow))
    /\ pc' = "cli_join"
    /\ UNCHANGED <<cli_i, ctx_rows, cli_seen, context_parts, total_len, frames,
                   calls, exc, llm_iter, delivered, cfgVars, auxVars, asmVars, closed, expVars>>

\* the rows are exhausted, retriever.py:181
CliLoopEnd ==
    /\ pc = "cli_loop"
    /\ cli_i = Len(ctx_rows)
    /\ pc' = "cli_join"
    /\ UNCHANGED <<cli_i, ctx_rows, cli_seen, context_parts, total_len, frames,
                   calls, exc, llm_iter, delivered, cfgVars, auxVars, asmVars, closed, expVars>>

InitCli ==
    /\ graph_retriever = TRUE
    /\ LLM_PROVIDER = "ollama"
    /\ OPENROUTER_API_KEY = FALSE
    /\ pc = "cli_loop"
    /\ frames = <<>>
    /\ calls = [NoCalls EXCEPT !.embed = 1, !.search = 1, !.expand = 1]
    /\ exc = NoExc
    /\ llm_iter = NoIter
    /\ delivered = <<>>
    /\ context_data = <<>>
    /\ AsmInitLocals
    /\ closed = FALSE
    /\ ExpIdle
    /\ AuxIdle
    /\ ctx_rows \in SeqsUpTo(CliRows, MaxCliRows)
    /\ cli_i = 0
    /\ cli_seen = {}
    /\ context_parts = <<>>
    /\ total_len = 0

NextCli == CliContinue \/ CliAppend \/ CliBreak \/ CliLoopEnd

SpecCli == InitCli /\ [][NextCli]_vars

(***************************************************************************)
(* Neo4jUploader._sanitize_rel_type, graph_pipe.py:62-64.  A str is a       *)
(* sequence of one-character strings.                                       *)
(***************************************************************************)
MaxTypeLen == 3     \* longest relationship type drawn

AsciiUpper ==
    {"A", "B", "C", "D", "E", "F", "G", "H", "I", "J", "K", "L", "M",
     "N", "O", "P", "Q", "R", "S", "T", "U", "V", "W", "X", "Y", "Z"}
AsciiLower ==
    {"a", "b", "c", "d", "e", "f", "g", "h", "i", "j", "k", "l", "m",
     "n", "o", "p", "q", "r", "s", "t", "u", "v", "w", "x", "y", "z"}
AsciiDigits == {"0", "1", "2", "3", "4", "5", "6", "7", "8", "9"}

\* the characters relationship types are drawn from: letters of both cases, a
\* digit, the underscore, punctuation, a blank, and two letters outside
\* ASCII written by their code points: e acute (U+00E9, upper case U+00C9)
\* and sharp s (U+00DF, upper case "SS")
TypeChars == {"u", "s", "E", "7", "_", "-", " ", "\\u00e9", "\\u00df"}
Str(cs) == [null |-> FALSE, chars |-> cs]
RelatedTo == <<"R", "E", "L", "A", "T", "E", "D", "_", "T", "O">>
\* rel.get("type", "RELATED_TO"), graph_pipe.py:75: null, "", any short
\* string, and the default of a relationship without the key
RelTypes ==
    {Null} \cup {Str(cs) : cs \in SeqsUpTo(TypeChars, MaxTypeLen)} \cup {Str(RelatedTo)}

\* str.upper() on one character
UpperNone(ch) == <<ch>>
Upper(ch) ==
    CASE ch = "u" -> <<"U">>
      [] ch = "s" -> <<"S">>
      [] ch = "\\u00e9" -> <<"\\u00c9">>
      [] ch = "\\u00df" -> <<"S", "S">>
      [] OTHER -> <<ch>>
RECURSIVE UpperStr(_)
UpperStr(cs) == IF cs = <<>> THEN <<>> ELSE Upper(Head(cs)) \o UpperStr(Tail(cs))

\* the class [A-Za-z0-9_]
InClass(ch) == ch \in AsciiUpper \cup AsciiLower \cup AsciiDigits \cup {"_"}
\* re.sub(r"[^A-Za-z0-9_]+", "_", cs): every maximal run of characters
\* outside the class becomes one underscore
RECURSIVE ReSub(_, _)
ReSub(cs, inRun) ==
    IF cs = <<>> THEN <<>>
    ELSE IF InClass(Head(cs)) THEN <<Head(cs)>> \o ReSub(Tail(cs), FALSE)
    ELSE (IF inRun THEN <<>> ELSE <<"_">>) \o ReSub(Tail(cs), TRUE)

\* t or "RELATED_TO"
OrRelatedTo(t) == IF t.null \/ t.chars = <<>> THEN RelatedTo ELSE t.chars

\* graph_pipe.py:64
SanitizeRelType(t) == ReSub(UpperStr(OrRelatedTo(t)), FALSE)

RunSanitizeRelType ==
    /\ pc = "sanitize_called"
    /\ sanitized' = SanitizeRelType(rel_type)
    /\ pc' = "sanitize_returned"
    /\ UNCHANGED <<frames, calls, exc, llm_iter, delivered, cfgVars, asmVars,
                   closed, expVars, cliVars, rel_type, embVars, srvVars, retryVars>>

\* the state outside the call under study
SessionIdle ==
    /\ graph_retriever = TRUE
    /\ frames = <<>>
    /\ calls = NoCalls
    /\ exc = NoExc
    /\ llm_iter = NoIter
    /\ delivered = <<>>
    /\ context_data = <<>>
    /\ AsmInitLocals
    /\ closed = FALSE
    /\ ExpIdle
    /\ CliIdle

InitSanitize ==
    /\ SessionIdle
    /\ LLM_PROVIDER = "ollama"
    /\ OPENROUTER_API_KEY = FALSE
    /\ pc = "sanitize_called"
    /\ rel_type \in RelTypes
    /\ sanitized = NoValue
    /\ EmbIdle /\ SrvIdle /\ RetryIdle

NextSanitize == RunSanitizeRelType

SpecSanitize == InitSanitize /\ [][NextSanitize]_vars

(***************************************************************************)
(* embed_chunks_parallel, spark_processor.py:156-170: the calling thread    *)
(* submits one embed_query call per chunk to a pool of `workers` threads    *)
(* and stores each outcome as its future completes.                         *)
(***************************************************************************)
MaxChunks == 3      \* largest number of chunks
MaxWorkers == 2     \* the pool size `workers`

ChunkTexts == {"x", "y"}
\* embedder.embed_query(text) as floats: a vector that names its text
Embedding(text) == <<"vector of", text>>

Future(state, outcome) == [state |-> state, outcome |-> outcome]
Running == {i \in 1..Len(futures) : futures[i].state = "running"}
Queued == {i \in 1..Len(futures) : futures[i].state = "queued"}
Collected == {i \in 1..Len(futures) : futures[i].state = "collected"}

\* spark_processor.py:164: the slot a completed future is stored in; k is
\* its place in the order of completion
CompletionOrderIdx(i, k) == k
FutureToIdx(i, k) == i

\* a pool thread takes the oldest queued call
WorkerStart ==
    /\ pc = "as_completed"
    /\ Queued # {}
    /\ Cardinality(Running) < MaxWorkers
    /\ LET i == CHOOSE q \in Queued : \A o \in Queued : q <= o IN
         futures' = [futures EXCEPT ![i] = Future("running", "none")]
    /\ UNCHANGED <<pc, chunks, results, frames, calls, exc, llm_iter, delivered,
                   cfgVars, asmVars, closed, expVars, cliVars, sanVars, srvVars,
                   retryVars>>

\* embed_query returns, or raises, in its pool thread
WorkerFinish ==
    /\ pc = "as_completed"
    /\ \E i \in Running : \E outcome \in {"returned", "raised"} :
          futures' = [futures EXCEPT ![i] = Future("done", outcome)]
    /\ UNCHANGED <<pc, chunks, results, frames, calls, exc, llm_iter, delivered,
                   cfgVars, asmVars, closed, expVars, cliVars, sanVars, srvVars,
                   retryVars>>

\* spark_processor.py:163-169: one iteration of the as_completed loop, in
\* the calling thread
StoreResult ==
    /\ pc = "as_completed"
    /\ \E i \in {j \in 1..Len(futures) : futures[j].state = "done"} :
          /\ results' =
                [results EXCEPT ![FutureToIdx(i, Cardinality(Collected) + 1)] =
                    IF futures[i].outcome = "raised"
                    THEN Val(<<>>) ELSE Val(Embedding(chunks[i]))]
          /\ futures' = [futures EXCEPT ![i].state = "collected"]
    /\ UNCHANGED <<pc, chunks, frames, calls, exc, llm_iter, delivered,
                   cfgVars, asmVars, closed, expVars, cliVars, sanVars, srvVars,
                   retryVars>>

\* spark_processor.py:170: every future was yielded, the pool shuts down
EmbedReturn ==
    /\ pc = "as_completed"
    /\ Collected = 1..Len(futures)
    /\ pc' = "embed_returned"
    /\ UNCHANGED <<chunks, futures, results, frames, calls, exc, llm_iter,
                   delivered, cfgVars, asmVars, closed, expVars, cliVars, sanVars,
                   srvVars, retryVars>>

\* spark_processor.py:158-162: results = [None] * len(chunks), all submitted
InitEmbed ==
    /\ SessionIdle
    /\ LLM_PROVIDER = "ollama"
    /\ OPENROUTER_API_KEY = FALSE
    /\ pc = "as_completed"
    /\ chunks \in SeqsUpTo(ChunkTexts, MaxChunks)
    /\ futures = [i \in 1..Len(chunks) |-> Future("queued", "none")]
    /\ results = [i \in 1..Len(chunks) |-> Null]
    /\ SanIdle /\ SrvIdle /\ RetryIdle

NextEmbed == WorkerStart \/ WorkerFinish \/ StoreResult \/ EmbedReturn

SpecEmbed == InitEmbed /\ [][NextEmbed]_vars

(***************************************************************************)
(* Two /query sessions in one server process, main.py:143-181.  Each call   *)
(* of response_generator and of _prepare_structured_data has its own call   *)
(* frame; the sessions share the module globals, which no session assigns.  *)
(* A session's collaborators answer as its script says.                     *)
(***************************************************************************)
MaxSessRows == 2    \* rows graph_expansion returns to one session

Sessions == {1, 2}
SessRows ==
    { Row("p1", "t1", JsonText(FragA)), Row("p1", "t2", JsonText(FragB)),
      Row("p2", "t1", JsonText(FragNoType)) }
Script(rows, tokens, fails) == [rows |-> rows, tokens |-> tokens, fails |-> fails]
Scripts ==
    { Script(rows, tokens, fails) :
        rows \in SeqsUpTo(SessRows, MaxSessRows),
        tokens \in {<<"The ", "answer ">>},
        fails \in {"none", "expand", "iterate"} }

\* main.py:102-106
NewAcc ==
    [sources |-> <<>>, graph_nodes |-> <<>>, graph_edges |-> <<>>,
     context_for_llm |-> "", seen_chunks |-> {}]
NewSession ==
    [pc |-> "expand", context_data |-> <<>>, i |-> 0, frames |-> <<>>,
     exc |-> NoExc, structured_data |-> NoValue, pulled |-> 0]

\* the call frame that holds the accumulators of session s
SharedFrame(s) == 1
FrameOf(s) == s

nonSrvVars ==
    <<cfgVars, sessVars, asmVars, closed, expVars, cliVars, sanVars, embVars,
      retryVars>>

\* main.py:150-153: the retrieval stages answer (or the store raises), and
\* the helper is entered with fresh accumulators
SessExpand(s) ==
    /\ sess[s].pc = "expand"
    /\ IF scripts[s].fails = "expand"
       THEN /\ sess' = [sess EXCEPT ![s].pc = "except",
                                    ![s].exc = Exc("ServiceUnavailable", "expand")]
            /\ UNCHANGED accs
       ELSE /\ sess' = [sess EXCEPT ![s].pc = "assemble",
                                    ![s].context_data = scripts[s].rows]
            /\ accs' = [accs EXCEPT ![FrameOf(s)] = NewAcc]
    /\ UNCHANGED <<scripts, store_reachable, health_log, nonSrvVars>>

\* main.py:108-134: one iteration of the helper's loop
SessProcessRow(s) ==
    /\ sess[s].pc = "assemble"
    /\ sess[s].i < Len(sess[s].context_data)
    /\ LET r == [sess[s].context_data[sess[s].i + 1]
                    EXCEPT !.graph_data = ParsedGraphData(@)] IN
         IF RowRaises(r)
         THEN /\ sess' = [sess EXCEPT ![s].pc = "except",
                                      ![s].context_data[sess[s].i + 1] = r,
                                      ![s].exc = Exc(RowException(r), "assemble")]
              /\ UNCHANGED accs
         ELSE /\ sess' = [sess EXCEPT ![s].i = @ + 1,
                                      ![s].context_data[sess[s].i + 1] = r]
              /\ accs' = [accs EXCEPT ![FrameOf(s)] = LoopBody(@, r)]
    /\ UNCHANGED <<scripts, store_reachable, health_log, nonSrvVars>>

\* main.py:136-140
SessAssembleReturn(s) ==
    /\ sess[s].pc = "assemble"
    /\ sess[s].i = Len(sess[s].context_data)
    /\ LET acc == accs[FrameOf(s)] IN
         sess' = [sess EXCEPT
                    ![s].pc = "emit_graph",
                    ![s].structured_data =
                        StructuredResponse(acc.sources, acc.graph_nodes, acc.graph_edges)]
    /\ UNCHANGED <<scripts, accs, store_reachable, health_log, nonSrvVars>>

\* main.py:155-168
SessEmit(s) ==
    /\ \/ /\ sess[s].pc = "emit_graph"
          /\ sess' = [sess EXCEPT
                        ![s].pc = "emit_metadata",
                        ![s].frames = Yield(@, GraphFrame(sess[s].structured_data))]
       \/ /\ sess[s].pc = "emit_metadata"
          /\ sess' = [sess EXCEPT
                        ![s].pc = "iterate",
                        ![s].frames = Yield(@, MetadataFrame(sess[s].structured_data))]
    /\ UNCHANGED <<scripts, accs, store_reachable, health_log, nonSrvVars>>

\* main.py:170-173: the next fragment, the end of the fragments, or the
\* provider's stream breaking after them
SessIterate(s) ==
    /\ sess[s].pc = "iterate"
    /\ IF sess[s].pulled < Len(scripts[s].tokens)
       THEN sess' = [sess EXCEPT
                       ![s].pulled = @ + 1,
                       ![s].frames = Yield(@, TextFrame(scripts[s].tokens[sess[s].pulled + 1]))]
       ELSE IF scripts[s].fails = "iterate"
       THEN sess' = [sess EXCEPT ![s].pc = "except",
                                 ![s].exc = Exc("ChunkedEncodingError", "iterate")]
       ELSE sess' = [sess EXCEPT ![s].pc = "finally"]
    /\ UNCHANGED <<scripts, accs, store_reachable, health_log, nonSrvVars>>

\* main.py:175-179
SessExceptFinally(s) ==
    /\ \/ /\ sess[s].pc = "except"
          /\ sess' = [sess EXCEPT ![s].pc = "finally",
                                  ![s].frames = Yield(@, ErrorFrame)]
       \/ /\ sess[s].pc = "finally"
          /\ sess' = [sess EXCEPT ![s].pc = "done",
                                  ![s].frames = Yield(@, EndFrame)]
    /\ UNCHANGED <<scripts, accs, store_reachable, health_log, nonSrvVars>>

InitSessions ==
    /\ SessionIdle
    /\ LLM_PROVIDER = "ollama"
    /\ OPENROUTER_API_KEY = FALSE
    /\ pc = "serving"
    /\ scripts \in [Sessions -> Scripts]
    /\ sess = [s \in Sessions |-> NewSession]
    /\ accs = [s \in Sessions |-> NewAcc]
    /\ store_reachable = TRUE
    /\ health_log = <<>>
    /\ SanIdle /\ EmbIdle /\ RetryIdle

NextSessions ==
    \E s \in Sessions :
        \/ SessExpand(s)
        \/ SessProcessRow(s)
        \/ SessAssembleReturn(s)
        \/ SessEmit(s)
        \/ SessIterate(s)
        \/ SessExceptFinally(s)

SpecSessions == InitSessions /\ [][NextSessions]_vars

(***************************************************************************)
(* GET /health, main.py:95-98, in a server started by lifespan              *)
(* (main.py:31-45) while the store comes and goes.                          *)
(***************************************************************************)
MaxHealthChecks == 6    \* health requests in one run

\* main.py:98
HealthResponse == [status |-> "ok"]

\* main.py:34-37, 39-41: verify_connectivity at startup; without the store
\* the application does not start
Lifespan ==
    /\ pc = "lifespan"
    /\ pc' = IF store_reachable THEN "serving_health" ELSE "startup_failed"
    /\ UNCHANGED <<scripts, sess, accs, store_reachable, health_log, frames,
                   calls, exc, llm_iter, delivered, cfgVars, asmVars, closed,
                   expVars, cliVars, sanVars, embVars, retryVars>>

\* the store goes down, or comes back, while the server runs
StoreChanges ==
    /\ pc = "serving_health"
    /\ store_reachable' = ~ store_reachable
    /\ UNCHANGED <<pc, scripts, sess, accs, health_log, frames, calls, exc,
                   llm_iter, delivered, cfgVars, asmVars, closed, expVars,
                   cliVars, sanVars, embVars, retryVars>>

\* main.py:96-98
HealthCheck ==
    /\ pc = "serving_health"
    /\ Len(health_log) < MaxHealthChecks
    /\ health_log' = Append(health_log,
                            [reachable |-> store_reachable, response |-> HealthResponse])
    /\ UNCHANGED <<pc, scripts, sess, accs, store_reachable, frames, calls, exc,
                   llm_iter, delivered, cfgVars, asmVars, closed, expVars,
                   cliVars, sanVars, embVars, retryVars>>

InitHealth ==
    /\ SessionIdle
    /\ LLM_PROVIDER = "ollama"
    /\ OPENROUTER_API_KEY = FALSE
    /\ pc = "lifespan"
    /\ scripts = <<>>
    /\ sess = <<>>
    /\ accs = <<>>
    /\ store_reachable \in BOOLEAN
    /\ health_log = <<>>
    /\ SanIdle /\ EmbIdle /\ RetryIdle

NextHealth == Lifespan \/ StoreChanges \/ HealthCheck

SpecHealth == InitHealth /\ [][NextHealth]_vars

(***************************************************************************)
(* _call_ollama and _call_openrouter, spark_processor.py:96-133, as         *)
(* extract_graph_data calls them (spark_processor.py:139-142):              *)
(* LLM_PROVIDER selects the function.                                       *)
(***************************************************************************)
MaxRetries == 3     \* largest `retries` argument

\* what a successful attempt returns: r.json().get("response", "") or
\* completion.choices[0].message.content or ""
Responses == {"", "{\"entities\": [], \"relationships\": []}", "Sorry, no JSON."}

\* what a failed attempt raises: requests.post, raise_for_status, r.json(),
\* or the hosted API's client
AttemptErrors == {"ConnectionError", "HTTPError"}

\* one attempt: its response text, or the class of its exception
AttemptEvent(ok, text) == [ev |-> "attempt", ok |-> ok, text |-> text]
SleepEvent == [ev |-> "sleep"]

\* spark_processor.py:109 and 131
SleepsAfterAlways(i, n) == TRUE
SleepsAfter(i, n) == i < n - 1

\* the call reaches its for loop: _call_ollama at once, _call_openrouter
\* when the key is set (spark_processor.py:114)
InRetryLoop ==
    /\ pc = "call_llm"
    /\ LLM_PROVIDER = "ollama" \/ OPENROUTER_API_KEY

\* spark_processor.py:114-115
NoApiKeyReturn ==
    /\ pc = "call_llm"
    /\ LLM_PROVIDER = "openrouter"
    /\ ~ OPENROUTER_API_KEY
    /\ ret' = Val("")
    /\ pc' = "call_returned"
    /\ UNCHANGED <<retries, attempt, trace, frames, calls, exc, llm_iter,
                   delivered, cfgVars, asmVars, closed, expVars, cliVars, sanVars,
                   embVars, srvVars>>

\* spark_processor.py:98-105 and 118-128: the attempt succeeds
AttemptReturns ==
    /\ InRetryLoop
    /\ attempt < retries
    /\ \E text \in Responses :
          /\ trace' = Append(trace, AttemptEvent(TRUE, text))
          /\ ret' = Val(text)
    /\ pc' = "call_returned"
    /\ UNCHANGED <<retries, attempt, frames, calls, exc, llm_iter, delivered,
                   cfgVars, asmVars, closed, expVars, cliVars, sanVars, embVars,
                   srvVars>>

\* spark_processor.py:106-110 and 129-132: the attempt raises
AttemptRaises ==
    /\ InRetryLoop
    /\ attempt < retries
    /\ \E e \in AttemptErrors :
          trace' = Append(trace, AttemptEvent(FALSE, e))
                      \o (IF SleepsAfter(attempt, retries) THEN <<SleepEvent>> ELSE <<>>)
    /\ attempt' = attempt + 1
    /\ UNCHANGED <<pc, retries, ret, frames, calls, exc, llm_iter, delivered,
                   cfgVars, asmVars, closed, expVars, cliVars, sanVars, embVars,
                   srvVars>>

\* spark_processor.py:111 and 133
RetriesExhausted ==
    /\ InRetryLoop
    /\ attempt = retries
    /\ ret' = Val("")
    /\ pc' = "call_returned"
    /\ UNCHANGED <<retries, attempt, trace, frames, calls, exc, llm_iter,
                   delivered, cfgVars, asmVars, closed, expVars, cliVars, sanVars,
                   embVars, srvVars>>

InitRetry ==
    /\ SessionIdle
    /\ LLM_PROVIDER \in {"ollama", "openrouter"}
    /\ OPENROUTER_API_KEY \in BOOLEAN
    /\ pc = "call_llm"
    /\ retries \in 0..MaxRetries
    /\ attempt = 0
    /\ trace = <<>>
    /\ ret = NoValue
    /\ SanIdle /\ EmbIdle /\ SrvIdle

NextRetry == NoApiKeyReturn \/ AttemptReturns \/ AttemptRaises \/ RetriesExhausted

\* the calling thread keeps running: a request ends (timeout=60 at
\* spark_processor.py:102) and a sleep ends
SpecRetry == InitRetry /\ [][NextRetry]_vars /\ WF_vars(NextRetry)

(***************************************************************************)
(* Properties of the event stream (checked under Spec).                    *)
(***************************************************************************)
\* How a client tells the frames apart: the terminal frame by its event
\* name, the typed payloads by "type", the failure payload by its "error" key.
FrameKind(f) ==
    IF f.event = "end" THEN "end"
    ELSE IF "type" \in DOMAIN f.data THEN f.data.type
    ELSE IF "error" \in DOMAIN f.data THEN "error"
    ELSE "other"
Kinds(fs) == [i \in 1..Len(fs) |-> FrameKind(fs[i])]
IsTextFrame(f) == FrameKind(f) = "text"
TextFrames(fs) == SelectSeq(fs, IsTextFrame)
TextChunks(fs) == [i \in 1..Len(TextFrames(fs)) |-> TextFrames(fs)[i].data.chunk]
CountKind(fs, k) == Cardinality({i \in 1..Len(fs) : FrameKind(fs[i]) = k})

\* C1: a session in which no stage raised has sent, when the generator
\* finishes, exactly graph, metadata, text*, end in this order; and while it
\* runs the frames sent so far are a prefix of that sequence.
C1_SuccessfulStreamOrder ==
    exc = NoExc =>
        LET k == Kinds(frames)
            n == Len(frames) IN
        /\ \A i \in 1..n :
              /\ i = 1 => k[i] = "graph"
              /\ i = 2 => k[i] = "metadata"
              /\ i >= 3 => \/ k[i] = "text"
                           \/ k[i] = "end" /\ i = n
        /\ pc = "done" => /\ n >= 3
                          /\ k[n] = "end"
                          /\ frames[1] = GraphFrame(structured_data)
                          /\ frames[2] = MetadataFrame(structured_data)
C1_Witness ==
    /\ pc = "done"
    /\ exc = NoExc
    /\ Len(frames) = 5
    /\ Kinds(frames) = <<"graph", "metadata", "text", "text", "end">>

\* C2: whatever stage fails or not, a finished stream holds exactly one
\* terminal frame and it is the last frame; no frame is ever sent after a
\* terminal frame; and the generator cannot stop before it has finished.
C2_TerminalFrameOnceAndLast ==
    /\ \A i \in 1..Len(frames) :
          FrameKind(frames[i]) = "end" => i = Len(frames) /\ pc = "done"
    /\ pc = "done" => /\ frames # <<>>
                      /\ FrameKind(frames[Len(frames)]) = "end"
                      /\ CountKind(frames, "end") = 1
    /\ pc \in {"done", "http503"} \/ ENABLED Next
C2_Witness ==
    /\ pc = "done"
    /\ exc.at = "iterate"
    /\ CountKind(frames, "text") >= 1
    /\ FrameKind(frames[Len(frames)]) = "end"
    /\ CountKind(frames, "end") = 1

EarlyStages == {"embed", "search", "expand", "assemble"}
LateStages == {"query_llm", "iterate"}
FrameTypes == {"graph", "metadata", "text", "error"}

\* C3: when embedding, seed search, expansion or assembly raises, the
\* stream is the failure frame followed at once by the terminal frame, with
\* no graph, metadata or text frame, and no stage is invoked a second time.
C3_EarlyFailureStream ==
    /\ \A st \in DOMAIN calls : calls[st] <= 1
    /\ exc.at \in EarlyStages =>
          /\ calls[exc.at] = 1
          /\ calls.llm = 0
          /\ Kinds(frames) \in {<<>>, <<"error">>, <<"error", "end">>}
          /\ pc = "done" => frames = <<ErrorFrame, EndFrame>>
C3_Witness ==
    /\ pc = "done"
    /\ exc = Exc("ServiceUnavailable", "expand")
    /\ frames = <<ErrorFrame, EndFrame>>
    /\ calls.expand = 1

\* C4: when the exception is raised after the graph and metadata frames
\* were sent, the finished stream is graph, metadata, the text frames sent
\* so far, one failure frame and then the terminal frame; nothing but the
\* terminal frame ever follows a failure frame.
C4_LateFailureStream ==
    /\ \A i \in 1..Len(frames) : \A j \in (i + 1)..Len(frames) :
          FrameKind(frames[i]) = "error" => FrameKind(frames[j]) = "end"
    /\ (exc.at \in LateStages /\ pc = "done") =>
          LET k == Kinds(frames)
              n == Len(frames) IN
          /\ n >= 4
          /\ k[1] = "graph"
          /\ k[2] = "metadata"
          /\ \A i \in 3..(n - 2) : k[i] = "text"
          /\ k[n - 1] = "error"
          /\ k[n] = "end"
C4_Witness ==
    /\ pc = "done"
    /\ exc.at = "iterate"
    /\ Kinds(frames) = <<"graph", "metadata", "text", "text", "error", "end">>

\* What the iterable query_llm returned yields for what the provider
\* delivered: the characters of a string, the "response" of each usable line,
\* the content of each delta.
RECURSIVE YieldedBy(_, _)
YieldedBy(kind, d) ==
    IF d = <<>> THEN <<>>
    ELSE LET x == Head(d)
             rest == YieldedBy(kind, Tail(d)) IN
         CASE kind = "ollama_gen" ->
                  IF OllamaLineSkipped(x) THEN rest ELSE <<OllamaLineYield(x)>> \o rest
           [] kind = "openrouter_gen" -> <<DeltaYield(x)>> \o rest
           [] OTHER -> <<x>> \o rest

\* C5: the text frames carry, one frame per fragment and in the same order,
\* exactly the fragments the generation client has yielded.
C5_OneTextFramePerFragment ==
    TextChunks(frames) = YieldedBy(llm_iter.kind, delivered)
C5_Witness ==
    /\ pc = "done"
    /\ exc = NoExc
    /\ llm_iter.kind = "ollama_gen"
    /\ TextChunks(frames) = <<"The ", "answer ", "is 42.">>

\* C6: every frame before the terminal frame has a "type" among graph,
\* metadata, text and error, and a frame of type error carries a message.
C6_EveryFrameIsTyped ==
    \A i \in 1..Len(frames) :
        frames[i].event # "end" =>
            /\ "type" \in DOMAIN frames[i].data
            /\ frames[i].data.type \in FrameTypes
            /\ frames[i].data.type = "error" => "message" \in DOMAIN frames[i].data

(***************************************************************************)
(* Properties of _prepare_structured_data (checked under SpecAssemble).    *)
(***************************************************************************)
\* the rows the loop has consumed
Processed == SubSeq(context_data, 1, idx)
Returned == structured_data # NoValue

\* the rows of a list that are the first with their chunk_text, in order
RECURSIVE FirstOccurrencesFrom(_, _)
FirstOccurrencesFrom(rows, i) ==
    IF i > Len(rows) THEN <<>>
    ELSE (IF \A j \in 1..(i - 1) : rows[j].chunk_text # rows[i].chunk_text
          THEN <<rows[i]>> ELSE <<>>) \o FirstOccurrencesFrom(rows, i + 1)
FirstOccurrences(rows) == FirstOccurrencesFrom(rows, 1)
SourceFields(r) ==
    [paper_id |-> r.paper_id, paper_title |-> r.paper_title,
     pdf_url |-> r.pdf_url, chunk_text |-> r.chunk_text]
ExpectedSources(rows) ==
    [k \in 1..Len(FirstOccurrences(rows)) |-> SourceFields(FirstOccurrences(rows)[k])]

\* C7: the Source list is the input's first row of each distinct chunk_text,
\* in input order: after every loop iteration for the rows consumed, and in
\* the returned response for the whole input; no two sources share a text.
C7_SourcesAreFirstOccurrences ==
    /\ sources = ExpectedSources(Processed)
    /\ \A i, j \in 1..Len(sources) :
          sources[i].chunk_text = sources[j].chunk_text => i = j
    /\ Returned => structured_data.sources = ExpectedSources(context_data)
C7_Witness ==
    /\ Returned
    /\ Len(context_data) = 3
    /\ context_data[1].chunk_text = context_data[2].chunk_text
    /\ context_data[1].paper_id # context_data[2].paper_id
    /\ context_data[3].chunk_text # context_data[1].chunk_text
    /\ structured_data.sources =
          <<SourceFields(context_data[1]), SourceFields(context_data[3])>>

\* every entity / relationship of the rows' fragments, in input order
RowEntities(r) == GdGet(GdOf([r EXCEPT !.graph_data = ParsedGraphData(@)]), "entities")
RowRels(r) == GdGet(GdOf([r EXCEPT !.graph_data = ParsedGraphData(@)]), "relationships")
RECURSIVE AllEntities(_)
AllEntities(rows) ==
    IF rows = <<>> THEN <<>> ELSE RowEntities(Head(rows)) \o AllEntities(Tail(rows))
RECURSIVE AllRels(_)
AllRels(rows) ==
    IF rows = <<>> THEN <<>> ELSE RowRels(Head(rows)) \o AllRels(Tail(rows))
LastIndexOf(ents, name) ==
    CHOOSE i \in 1..Len(ents) :
        /\ ents[i].name = name
        /\ \A j \in (i + 1)..Len(ents) : ents[j].name # name

\* C8: no two nodes of the GraphView share a name, and each node's type is
\* the type of the last occurrence of its name in input order.
C8_NodesUniqueLastTypeWins ==
    LET nodes == DictValues(graph_nodes)
        ents == AllEntities(Processed) IN
    /\ \A i, j \in 1..Len(nodes) : nodes[i].id = nodes[j].id => i = j
    /\ \A i \in 1..Len(nodes) :
          /\ \E k \in 1..Len(ents) : ents[k].name = nodes[i].id
          /\ nodes[i].type = ents[LastIndexOf(ents, nodes[i].id)].type
    /\ Returned => structured_data.graph.nodes = nodes
C8_Witness ==
    /\ Returned
    /\ Len(context_data) = 3
    /\ \E i \in 1..Len(structured_data.graph.nodes) :
          /\ structured_data.graph.nodes[i] = GraphNode("BERT", "Tool")
          /\ Entity("BERT", "Metric") \in
                {RowEntities(context_data[1])[k] : k \in 1..Len(RowEntities(context_data[1]))}
          /\ Entity("BERT", "Tool") \in
                {RowEntities(context_data[3])[k] : k \in 1..Len(RowEntities(context_data[3]))}

\* the entities and relationship triples stored fragments can hold
KnownEntities == {Entity(n, t) : n \in {"BERT", "SQuAD"}, t \in {"Tool", "Method", "Metric", "Dataset"}}
KnownRels ==
    {Rel(a, b, ty) : a \in {"BERT", "SQuAD"}, b \in {"BERT", "SQuAD"},
                     ty \in {"EVALUATED_ON", "COMPARES"}}
Triple(e) == <<e.source, e.target, e.type>>
ParsedRows == {[r EXCEPT !.graph_data = ParsedGraphData(@)] : r \in Rows}

\* C9: inserting an entity, a relationship or a whole row fragment a second
\* time leaves the GraphView as the first insertion left it, and no
\* (source, target, type) triple occurs twice in the edge list.
C9_InsertionIdempotent ==
    /\ \A e \in KnownEntities :
          InsertEntity(InsertEntity(graph_nodes, e), e) = InsertEntity(graph_nodes, e)
    /\ \A rel \in KnownRels :
          InsertRel(InsertRel(graph_edges, rel), rel) = InsertRel(graph_edges, rel)
    /\ \A r \in ParsedRows :
          ~ RowRaises(r) => StepGraph(StepGraph(Acc, r), r) = StepGraph(Acc, r)
    /\ LET edges == DictValues(graph_edges) IN
          /\ \A i, j \in 1..Len(edges) : Triple(edges[i]) = Triple(edges[j]) => i = j
          /\ Returned => structured_data.graph.edges = edges
C9_Witness ==
    /\ Returned
    /\ Len(context_data) = 2
    /\ context_data[1].graph_data = FragA
    /\ context_data[2].graph_data = FragA
    /\ structured_data.graph.edges = <<GraphEdge("BERT", "SQuAD", "EVALUATED_ON")>>
    /\ Len(structured_data.graph.nodes) = 2

SeqRange(sq) == {sq[i] : i \in 1..Len(sq)}

\* C10: the GraphView holds the entities and relationships of every row
\* consumed, and the returned one those of every input row, whether or not
\* the row's text was a first occurrence.
C10_GraphCoversEveryRow ==
    /\ {n.id : n \in SeqRange(DictValues(graph_nodes))}
          = {e.name : e \in SeqRange(AllEntities(Processed))}
    /\ {Triple(e) : e \in SeqRange(DictValues(graph_edges))}
          = {Triple(rel) : rel \in SeqRange(AllRels(Processed))}
    /\ Returned =>
          /\ {n.id : n \in SeqRange(structured_data.graph.nodes)}
                = {e.name : e \in SeqRange(AllEntities(context_data))}
          /\ {Triple(e) : e \in SeqRange(structured_data.graph.edges)}
                = {Triple(rel) : rel \in SeqRange(AllRels(context_data))}
C10_Witness ==
    /\ Returned
    /\ Len(context_data) = 2
    /\ context_data[2].chunk_text = context_data[1].chunk_text
    /\ Len(structured_data.sources) = 1
    /\ Rel("SQuAD", "BERT", "COMPARES") \in SeqRange(RowRels(context_data[2]))
    /\ Rel("SQuAD", "BERT", "COMPARES") \notin SeqRange(RowRels(context_data[1]))
    /\ GraphEdge("SQuAD", "BERT", "COMPARES") \in SeqRange(structured_data.graph.edges)

(***************************************************************************)
(* Properties of graph_expansion (checked under SpecExpand).               *)
(***************************************************************************)
ExpansionReturned == pc = "expansion_returned"
SeedSet == {chunk_ids[i] : i \in 1..Len(chunk_ids)}
ResolvedSeedSet == SeedSet \cap DOMAIN store.owner
\* the chunk's row is among the returned rows (chunk texts are distinct)
ChunkReturned(chunk) == StoreRow(store, chunk) \in expansion

\* C11: the row of every seed that resolves to a chunk is in the result,
\* whatever the depth and whatever else is reachable from the seed.
C11_SeedRowAlwaysReturned ==
    ExpansionReturned => \A c \in ResolvedSeedSet : ChunkReturned(c)

\* nodes joined by a relationship, whatever its direction
Neighbours(st, S) ==
    { r.to : r \in {q \in Relationships(st) : q.from \in S} }
        \cup { r.from : r \in {q \in Relationships(st) : q.to \in S} }
RECURSIVE WalkEnds(_, _, _)
WalkEnds(st, S, k) ==
    IF k = 0 THEN {} ELSE Neighbours(st, S) \cup WalkEnds(st, Neighbours(st, S), k - 1)

\* C12: a chunk that is not a seed is returned exactly when some resolved
\* seed reaches it over 1..depth MENTIONS / HAS_CHUNK relationships, each
\* taken in either direction.
C12_NonSeedReturnedIffReachable ==
    ExpansionReturned =>
        \A x \in ChunkIds \ SeedSet :
            ChunkReturned(x) <=> \E c \in ResolvedSeedSet : x \in WalkEnds(store, {c}, depth)
C12_Witness ==
    /\ ExpansionReturned
    /\ depth = 2
    /\ chunk_ids = <<"c1">>
    /\ store.owner["c1"] = "p1"
    /\ store.owner["c2"] = "p2"
    /\ store.owner["c3"] = "p1"
    /\ store.mentions = {<<"c1", "Attention">>, <<"c2", "Attention">>}
    /\ ChunkReturned("c2")
    /\ StoreRow(store, "c2").paper_id = "p2"

\* C13: with depth 0 the result is exactly the rows of the resolved seeds.
C13_DepthZeroReturnsSeeds ==
    (ExpansionReturned /\ depth = 0) =>
        expansion = { StoreRow(store, c) : c \in ResolvedSeedSet }
C13_Witness ==
    /\ ExpansionReturned
    /\ depth = 0
    /\ chunk_ids = <<"c1", "c2">>
    /\ store.owner["c1"] = store.owner["c3"]
    /\ <<"c1", "Attention">> \in store.mentions
    /\ <<"c3", "Attention">> \in store.mentions
    /\ Cardinality(expansion) = 2
    /\ ~ ChunkReturned("c3")

\* the seed list without the identifiers that resolve to no chunk
ResolvedOnly(ids) == SelectSeq(ids, LAMBDA cid : cid \in DOMAIN store.owner)

\* C20: an identifier that resolves to no chunk raises nothing and adds no
\* row: the result is a set of rows, each of a chunk of the store, and the
\* same set the call returns for the seed list without that identifier.
C20_UnknownSeedContributesNothing ==
    ExpansionReturned =>
        /\ expansion \subseteq { StoreRow(store, c) : c \in ChunkIds }
        /\ expansion = GraphExpansionRows(store, ResolvedOnly(chunk_ids), depth)
C20_Witness ==
    /\ ExpansionReturned
    /\ chunk_ids = <<UnknownChunkId, "c1">>
    /\ depth = 2
    /\ store.mentions = {}
    /\ store.owner["c2"] # store.owner["c1"]
    /\ store.owner["c3"] # store.owner["c1"]
    /\ expansion = { StoreRow(store, "c1") }

(***************************************************************************)
(* Malformed stored fragments (checked under SpecAssemble).                *)
(***************************************************************************)
\* the row the loop takes next, as stored
NextStoredRow == context_data[idx + 1]
Unparseable(g) == g.py = "str" /\ g.json = "invalid"

\* C14: a row whose graph_data is an unparseable string does not end the
\* loop: the iteration completes, adds no node and no edge, appends the row's
\* Source and context block exactly when its text is a first occurrence, and
\* leaves every other row and the graph built so far as they were.
C14_UnparseableFragmentIsEmpty ==
    [][ (pc = "assemble" /\ idx < Len(context_data)
            /\ Unparseable(NextStoredRow.graph_data))
        => /\ pc' = "assemble"
           /\ exc' = NoExc
           /\ idx' = idx + 1
           /\ graph_nodes' = graph_nodes
           /\ graph_edges' = graph_edges
           /\ sources' = IF NextStoredRow.chunk_text \in seen_chunks
                         THEN sources ELSE Append(sources, Source(NextStoredRow))
           /\ context_for_llm' = IF NextStoredRow.chunk_text \in seen_chunks
                                 THEN context_for_llm
                                 ELSE context_for_llm \o ContextBlock(NextStoredRow)
           /\ \A j \in 1..Len(context_data) :
                 j # idx + 1 => context_data'[j] = context_data[j] ]_vars
C14_Witness ==
    /\ Returned
    /\ Len(context_data) = 3
    /\ context_data[1].graph_data = FragA
    /\ context_data[2].graph_data = EmptyDict
    /\ context_data[2].chunk_text # context_data[1].chunk_text
    /\ context_data[3].graph_data = FragB
    /\ Len(structured_data.sources) = 2
    /\ structured_data.sources[2] = Source(context_data[2])
    /\ Len(structured_data.graph.nodes) = 2
    /\ Len(structured_data.graph.edges) = 2

\* C15: whatever the stored graph_data values, the helper does not raise.
C15_AssemblyNeverRaises ==
    exc.at # "assemble"

(***************************************************************************)
(* Error values of the generation client and the failure frame (checked    *)
(* under Spec).                                                             *)
(***************************************************************************)
\* query_llm returns an error string: retriever.py:160 and retriever.py:130
ReturnsErrorString ==
    \/ LLM_PROVIDER \notin {"ollama", "openrouter"}
    \/ LLM_PROVIDER = "openrouter" /\ ~ OPENROUTER_API_KEY
LlmErrorText ==
    IF LLM_PROVIDER = "openrouter"
    THEN "Error: OPENROUTER_API_KEY not set."
    ELSE "Error: invalid LLM_PROVIDER."

\* C16: when query_llm returns its error string and no stage raised, the
\* finished stream is graph, metadata, text frames, end without an error
\* frame, and one of the text frames carries the error string.
C16_ErrorTextFrame ==
    (pc = "done" /\ exc = NoExc /\ ReturnsErrorString) =>
        /\ Len(frames) >= 4
        /\ Kinds(frames)[1] = "graph"
        /\ Kinds(frames)[2] = "metadata"
        /\ Kinds(frames)[Len(frames)] = "end"
        /\ CountKind(frames, "error") = 0
        /\ \E i \in 1..Len(frames) :
              IsTextFrame(frames[i]) /\ frames[i].data.chunk = LlmErrorText

\* C18: every failure frame is the same constant frame, whichever exception
\* was raised and whichever stage raised it.
C18_ErrorFrameIsGeneric ==
    \A i \in 1..Len(frames) :
        FrameKind(frames[i]) = "error" =>
            frames[i] = [event |-> "message", data |-> [error |-> "Something went wrong"]]
C18_Witness ==
    /\ pc = "done"
    /\ exc = Exc("ChunkedEncodingError", "iterate")
    /\ Len(context_data) = 1
    /\ Len(frames) = 5
    /\ FrameKind(frames[4]) = "error"
    /\ frames[4].data.error = "Something went wrong"

(***************************************************************************)
(* Client disconnect (checked under SpecDisconnect).                       *)
(***************************************************************************)
\* C17: from the step that closes the generator on, no stage is invoked, no
\* fragment is pulled from the generation provider, and no graph, metadata
\* or text frame is sent.
C17_CloseAbortsRemainingStages ==
    [][ (closed \/ closed')
        => /\ calls' = calls
           /\ delivered' = delivered
           /\ llm_iter' = llm_iter
           /\ \A k \in {"graph", "metadata", "text"} :
                 CountKind(frames', k) = CountKind(frames, k) ]_vars
C17_Witness ==
    /\ closed
    /\ pc = "abandoned"
    /\ llm_iter.kind = "ollama_gen"
    /\ Len(delivered) = 1
    /\ Len(context_data) = 1
    /\ Kinds(frames) = <<"graph", "metadata", "text">>

(***************************************************************************)
(* The context budget of the command-line entry point (checked under       *)
(* SpecCli).                                                                *)
(***************************************************************************)
\* the non-empty units of the rows, first occurrences only, in row order
RECURSIVE UnitsFrom(_, _, _)
UnitsFrom(rows, i, names) ==
    IF i > Len(rows) THEN <<>>
    ELSE LET t == rows[i].chunk_text IN
         IF t.null \/ t.len = 0 \/ t.name \in names
         THEN UnitsFrom(rows, i + 1, names)
         ELSE <<rows[i]>> \o UnitsFrom(rows, i + 1, names \cup {t.name})
RECURSIVE BlockLengthSum(_)
BlockLengthSum(parts) ==
    IF parts = <<>> THEN 0
    ELSE 16 + Len(Head(parts).paper_title) + Head(parts).ch.len
            + BlockLengthSum(Tail(parts))
BlocksOf(units) ==
    [i \in 1..Len(units) |-> [paper_title |-> units[i].paper_title, ch |-> units[i].chunk_text]]
\* the number of leading units whose blocks together stay within the budget
FittingPrefix(units) ==
    LET fits == {n \in 0..Len(units) : BlockLengthSum(BlocksOf(SubSeq(units, 1, n))) <= 8000}
    IN CHOOSE n \in fits : (n + 1) \notin fits

\* C19: the running total is the sum of the appended blocks' lengths and
\* never exceeds 8000; the appended blocks are always leading units of the
\* deduplicated non-empty units, and when the loop is over they are exactly
\* the leading units that fit: nothing after the first unit that would
\* exceed the budget is appended.
C19_BudgetStopsAppending ==
    LET units == BlocksOf(UnitsFrom(ctx_rows, 1, {})) IN
    /\ total_len = BlockLengthSum(context_parts)
    /\ total_len <= 8000
    /\ Len(context_parts) <= Len(units)
    /\ context_parts = SubSeq(units, 1, Len(context_parts))
    /\ pc = "cli_join" =>
          Len(context_parts) = FittingPrefix(UnitsFrom(ctx_rows, 1, {}))
C19_Witness ==
    /\ pc = "cli_join"
    /\ Len(ctx_rows) = 4
    /\ ctx_rows[1].chunk_text = Text("a", 3975)
    /\ ctx_rows[2].chunk_text = Text("b", 3975)
    /\ ctx_rows[3].chunk_text = Text("c", 3976)
    /\ ctx_rows[4].chunk_text = Text("short", 10)
    /\ total_len = 8000
    /\ Len(context_parts) = 2
    /\ cli_i = 2

(***************************************************************************)
(* Relationship type tokens (checked under SpecSanitize).                  *)
(***************************************************************************)
\* C21: the token returned for a string or a null type is not empty and
\* holds only upper-case ASCII letters, digits and underscores; for a null
\* or empty type it is RELATED_TO.
C21_TokenIsUpperAlnum ==
    pc = "sanitize_returned" =>
        /\ sanitized # <<>>
        /\ \A i \in 1..Len(sanitized) :
              sanitized[i] \in AsciiUpper \cup AsciiDigits \cup {"_"}
        /\ (rel_type.null \/ rel_type.chars = <<>>) =>
              sanitized = <<"R", "E", "L", "A", "T", "E", "D", "_", "T", "O">>
C21_Witness ==
    /\ pc = "sanitize_returned"
    /\ rel_type = Str(<<"u", "-", "\\u00df">>)
    /\ sanitized = <<"U", "_", "S", "S">>

(***************************************************************************)
(* Parallel embedding (checked under SpecEmbed).                           *)
(***************************************************************************)
\* C22: whatever the order in which the pool's calls start and complete,
\* results always has one slot per chunk; the slot of a chunk whose call was
\* stored holds that chunk's embedding, or the empty list when the call
\* raised; every other slot is still None; and the function returns only
\* when every slot is filled.
C22_SlotPerChunk ==
    /\ Len(results) = Len(chunks)
    /\ \A i \in 1..Len(chunks) :
          results[i] =
              IF futures[i].state # "collected" THEN [null |-> TRUE]
              ELSE IF futures[i].outcome = "raised" THEN [null |-> FALSE, v |-> <<>>]
              ELSE [null |-> FALSE, v |-> Embedding(chunks[i])]
    /\ pc = "embed_returned" =>
          \A i \in 1..Len(chunks) : futures[i].state = "collected"
C22_Witness ==
    /\ pc = "embed_returned"
    /\ chunks = <<"x", "y", "x">>
    /\ futures[1].outcome = "returned"
    /\ futures[2].outcome = "raised"
    /\ futures[3].outcome = "returned"
    /\ results = <<Val(Embedding("x")), Val(<<>>), Val(Embedding("x"))>>

(***************************************************************************)
(* Concurrent sessions (checked under SpecSessions).                       *)
(***************************************************************************)
\* the accumulators _prepare_structured_data holds after rows i.. of a
\* session that runs alone
RECURSIVE AloneAcc(_, _, _)
AloneAcc(rows, i, acc) ==
    IF i > Len(rows) THEN acc
    ELSE AloneAcc(rows, i + 1,
                  LoopBody(acc, [rows[i] EXCEPT !.graph_data = ParsedGraphData(@)]))
\* the frames of a session that runs alone with the given script
AloneFrames(script) ==
    IF \/ script.fails = "expand"
       \/ \E i \in 1..Len(script.rows) :
             RowRaises([script.rows[i] EXCEPT !.graph_data = ParsedGraphData(@)])
    THEN <<ErrorFrame, EndFrame>>
    ELSE LET acc == AloneAcc(script.rows, 1, NewAcc)
             sd == StructuredResponse(acc.sources, acc.graph_nodes, acc.graph_edges)
         IN <<GraphFrame(sd), MetadataFrame(sd)>>
                \o [k \in 1..Len(script.tokens) |-> TextFrame(script.tokens[k])]
                \o (IF script.fails = "iterate" THEN <<ErrorFrame>> ELSE <<>>)
                \o <<EndFrame>>

\* C23: in every interleaving of the two sessions, the frames a session has
\* sent are the leading frames of the stream it sends when it runs alone,
\* and its finished stream is that stream, whatever the other session does
\* and whether or not the other session fails.
C23_SessionsDoNotInterfere ==
    pc = "serving" =>
        \A s \in Sessions :
            LET alone == AloneFrames(scripts[s]) IN
            /\ Len(sess[s].frames) <= Len(alone)
            /\ sess[s].frames = SubSeq(alone, 1, Len(sess[s].frames))
            /\ sess[s].pc = "done" => sess[s].frames = alone
C23_Witness ==
    /\ pc = "serving"
    /\ scripts[1] = Script(<<Row("p1", "t1", JsonText(FragA))>>, <<"The ", "answer ">>, "none")
    /\ scripts[2] = Script(<<Row("p1", "t2", JsonText(FragB)),
                             Row("p2", "t1", JsonText(FragNoType))>>,
                           <<"The ", "answer ">>, "none")
    /\ sess[1].pc = "done"
    /\ sess[2].pc = "done"
    /\ Kinds(sess[1].frames) = <<"graph", "metadata", "text", "text", "end">>
    /\ Len(sess[1].frames[1].data.nodes) = 2
    /\ Kinds(sess[2].frames) = <<"error", "end">>

(***************************************************************************)
(* The health endpoint (checked under SpecHealth).                         *)
(***************************************************************************)
\* C24: a health response given while the store is reachable and one given
\* while it is unreachable carry different statuses.
C24_HealthReportsStore ==
    \A i, j \in 1..Len(health_log) :
        (health_log[i].reachable /\ ~ health_log[j].reachable)
            => health_log[i].response.status # health_log[j].response.status

(***************************************************************************)
(* The generation client within a session (checked under Spec).            *)
(***************************************************************************)
\* C25: once query_llm has been called, its iterable exists, the provider
\* has delivered anything, or an exception of the generation stage is in
\* flight, the first two frames sent are the graph frame and the metadata
\* frame.
C25_LlmAfterGraphAndMetadata ==
    (\/ calls.llm > 0
     \/ llm_iter # NoIter
     \/ delivered # <<>>
     \/ exc.at \in {"query_llm", "iterate"})
        => /\ Len(frames) >= 2
           /\ FrameKind(frames[1]) = "graph"
           /\ FrameKind(frames[2]) = "metadata"
C25_Witness ==
    /\ pc = "done"
    /\ exc = Exc("KeyError", "query_llm")
    /\ calls.llm = 1
    /\ Len(context_data) = 1
    /\ Kinds(frames) = <<"graph", "metadata", "error", "end">>
    /\ Len(frames[2].data.sources) = 1

(***************************************************************************)
(* Provider retries (checked under SpecRetry).                             *)
(***************************************************************************)
AttemptsIn(tr) == {k \in 1..Len(tr) : tr[k].ev = "attempt"}
SuccessesIn(tr) == {k \in AttemptsIn(tr) : tr[k].ok}
RetrySafety ==
    \* at most `retries` attempts
    /\ Cardinality(AttemptsIn(trace)) <= retries
    \* nothing follows a successful attempt
    /\ \A k \in SuccessesIn(trace) : k = Len(trace) /\ pc = "call_returned"
    \* a sleep follows a failed attempt and leaves an attempt to come
    /\ \A k \in 1..Len(trace) :
          trace[k].ev = "sleep" =>
              /\ k > 1
              /\ trace[k - 1].ev = "attempt"
              /\ ~ trace[k - 1].ok
              /\ Cardinality(AttemptsIn(SubSeq(trace, 1, k))) < retries
    /\ pc = "call_returned" =>
          /\ trace # <<>> => trace[Len(trace)].ev = "attempt"
          /\ IF SuccessesIn(trace) # {}
             THEN ret = [null |-> FALSE, v |-> trace[Len(trace)].text]
             ELSE /\ ret = [null |-> FALSE, v |-> ""]
                  /\ \/ Cardinality(AttemptsIn(trace)) = retries
                     \/ LLM_PROVIDER = "openrouter" /\ ~ OPENROUTER_API_KEY /\ trace = <<>>

\* C26: the call makes at most `retries` attempts, stops at the first that
\* succeeds and returns its response, sleeps only after a failed attempt
\* that is not the last, returns "" when no attempt succeeded, and always
\* returns.
C26_RetriesBoundedAndReturn ==
    /\ []RetrySafety
    /\ <>(pc = "call_returned")
C26_Witness ==
    /\ pc = "call_returned"
    /\ LLM_PROVIDER = "openrouter"
    /\ retries = 3
    /\ trace = <<AttemptEvent(FALSE, "ConnectionError"), SleepEvent,
                 AttemptEvent(FALSE, "HTTPError"), SleepEvent,
                 AttemptEvent(FALSE, "HTTPError")>>
    /\ ret = Val("")

====
